---- MODULE Spec2Model ----
(***************************************************************************)
(* Model of uxbot.py: the action-resolution protocol of choose_action      *)
(* (prompt building, bounded retry loop, eval of the last code block,       *)
(* validation) and the outer loop of main (crawl, resolve, operator         *)
(* confirmation, operator override).                                        *)
(*                                                                          *)
(* External collaborators are inputs: the crawler's crawl() result, the     *)
(* model service's response text, and the operator's console input.         *)
(***************************************************************************)
EXTENDS Integers, Sequences, FiniteSets, TLC

VARIABLES
    pc,          \* position of main: crawl, choose, await, confirm, override, done, crashed, interrupted
    objective,   \* main's local objective
    messages,    \* the transcript (main's list, mutated by choose_action)
    inputs,      \* keys of the inputs dict returned by the last crawl()
    clickables,  \* keys of the clickables dict returned by the last crawl()
    retries,     \* choose_action's local retries
    func,        \* choose_action's local func (main's func after a return)
    kwargs,      \* choose_action's local kwargs (main's args after a return)
    calls,       \* number of client.chat.completions.create calls of the current choose_action call
    outcome,     \* how the try block of the current loop iteration ended
    lastErr,     \* what the last attempt of the current step raised ("ok": nothing, "none": no attempt yet)
    issued,      \* crawler actions issued since the last crawl() call
    steps,       \* number of crawl() calls that returned a page index
    interrupted, \* a KeyboardInterrupt was delivered to the process
    entryLen     \* len(messages) when the current choose_action call was entered

vars == <<pc, objective, messages, inputs, clickables, retries,
          func, kwargs, calls, outcome, lastErr, issued, steps,
          interrupted, entryLen>>

(***************************************************************************)
(* Bounds                                                                   *)
(***************************************************************************)
\* The transcript is explored up to this length: a step that would append
\* beyond it is not taken.
MaxMsgs == 8

\* The outer loop is explored for this many successful crawls.
MaxSteps == 2

(***************************************************************************)
(* Program constants                                                        *)
(***************************************************************************)
MAX_RETRIES == 3

EmptyKw == [k \in {} |-> 0]

\* FUNCTIONS: each name is bound to partial(_fake_func, name, **keywords)
FUNCTIONS ==
    [ go_back                |-> [name |-> "go_back",                keywords |-> EmptyKw],
      scroll_up              |-> [name |-> "scroll",                 keywords |-> [direction |-> "up"]],
      scroll_down            |-> [name |-> "scroll",                 keywords |-> [direction |-> "down"]],
      click                  |-> [name |-> "click",                  keywords |-> EmptyKw],
      type                   |-> [name |-> "type",                   keywords |-> EmptyKw],
      set_objective_complete |-> [name |-> "set_objective_complete", keywords |-> EmptyKw] ]

\* Python's None as the value of func
None == "None"

(***************************************************************************)
(* Inputs from the collaborators                                            *)
(***************************************************************************)
\* Page indexes crawl() can return: key sets of the two dicts.
PageIndexes ==
    { [clickables |-> {1},    inputs |-> {2}],
      [clickables |-> {1, 8}, inputs |-> {1}] }

\* A code block is one of three syntactic forms:
\*   call  : name(k1=v1, ...) with npos positional arguments in front
\*   tuple : the literal (name, {k1: v1, ...})
\*   junk  : text that is not a Python expression
Call(name, kw)    == [form |-> "call",  name |-> name, npos |-> 0, kw |-> kw]
PosCall(name, n)  == [form |-> "call",  name |-> name, npos |-> n, kw |-> EmptyKw]
Tuple(name, kw)   == [form |-> "tuple", name |-> name, npos |-> 0, kw |-> kw]
Junk              == [form |-> "junk",  name |-> "",   npos |-> 0, kw |-> EmptyKw]

\* Responses of the model service: the sequence of fenced code blocks that
\* re.findall extracts from the response text.
Responses ==
    { <<>>,
      <<Call("click", [id |-> 1])>>,
      <<Call("click", [id |-> 8])>>,
      <<Call("type", [id |-> 2, text |-> "hello", submit |-> TRUE])>>,
      <<Call("type", [id |-> 2, text |-> "hello"])>>,
      <<Call("type", [id |-> 2, text |-> "hello", speed |-> 3])>>,
      <<Call("type", [id |-> 8, text |-> "hello"])>>,
      <<Call("type", EmptyKw)>>,
      <<Call("scroll_up", EmptyKw)>>,
      <<Call("go_back", EmptyKw)>>,
      <<Call("set_objective_complete", EmptyKw)>>,
      <<Call("submit_form", EmptyKw)>>,
      <<Tuple("delete", EmptyKw)>>,
      <<Tuple(None, EmptyKw)>>,
      <<Call("click", [id |-> 1]), Call("click", [id |-> 8])>>,
      <<Call("click", [id |-> 8]), Call("click", [id |-> 1])>> }

Objectives == {"obj1", "obj2"}
OverrideIds == {1, 8}
Commands == {"g", "b", "u", "d", "c", "t", "h", "o"}

(***************************************************************************)
(* Prompt builder                                                           *)
(***************************************************************************)
\* Iteration order of the set inputs.keys() | clickables.keys(): a CPython set
\* of fewer than five small integers is walked by hash slot, i mod 8.
RECURSIVE IterOrder(_)
IterOrder(S) ==
    IF S = {} THEN <<>>
    ELSE LET m == CHOOSE x \in S : \A y \in S : (x % 8) <= (y % 8)
         IN  <<m>> \o IterOrder(S \ {m})

\* Mutant: the two flags are exchanged
Node_Swapped(i, inp, clk) == [id |-> i, clickable |-> i \in inp, inputable |-> i \in clk]

\* One <node id=.. clickable=.. inputable=..> entry
Node(i, inp, clk) == [id |-> i, clickable |-> i \in clk, inputable |-> i \in inp]

\* Mutant: each entry is put in front of the text built so far
RenderOrder_Prepend(order, inp, clk) ==
    [k \in 1..Len(order) |-> Node(order[Len(order) + 1 - k], inp, clk)]

\* html_description: the entries in iteration order
RenderOrder(order, inp, clk) == [k \in 1..Len(order) |-> Node(order[k], inp, clk)]

Render(inp, clk) == RenderOrder(IterOrder(inp \cup clk), inp, clk)

Last(msgs) == msgs[Len(msgs)]

Msg(role, obj, html, response, error) ==
    [role |-> role, objective |-> obj, html |-> html, response |-> response, error |-> error]

SystemMessage(obj)      == Msg("system", obj, <<>>, <<>>, "")
UserMessage(inp, clk)   == Msg("user", "", Render(inp, clk), <<>>, "")
AssistantMessage(resp)  == Msg("assistant", "", <<>>, resp, "")
CorrectiveMessage(err)  == Msg("user", "", <<>>, <<>>, err)

\* Mutant: the system message is built on every call
NeedsSystemMessage_Always(msgs) == Len(msgs) >= 0

\* if len(messages) == 0
NeedsSystemMessage(msgs) == Len(msgs) = 0

\* Mutant: the transcript is kept to a window, dropping the oldest
\* non-system message once it holds four
AppendMessage_Window(msgs, m) ==
    IF Len(msgs) >= 4
    THEN Append(<<msgs[1]>> \o SubSeq(msgs, 3, Len(msgs)), m)
    ELSE Append(msgs, m)

\* messages.append(m)
AppendMessage(msgs, m) == Append(msgs, m)

(***************************************************************************)
(* Parsing: eval of the last code block                                     *)
(***************************************************************************)
\* Keyword arguments of the call override the partial's keywords.
MergeKeywords(preset, kw) == kw @@ preset

\* eval(code[-1], {k: v['func'] ...}) followed by the unpacking into func, kwargs.
\* raised is "" when a pair was obtained, else the class of the exception.
Eval(block) ==
    CASE block.form = "junk" ->
            [raised |-> "SyntaxError", func |-> None, kwargs |-> EmptyKw]
      [] block.form = "tuple" ->
            [raised |-> "", func |-> block.name, kwargs |-> block.kw]
      [] block.form = "call" /\ block.name \notin DOMAIN FUNCTIONS ->
            [raised |-> "NameError", func |-> None, kwargs |-> EmptyKw]
      [] block.form = "call" /\ block.name \in DOMAIN FUNCTIONS /\ block.npos > 0 ->
            [raised |-> "TypeError", func |-> None, kwargs |-> EmptyKw]
      [] OTHER ->
            [raised |-> "",
             func   |-> FUNCTIONS[block.name].name,
             kwargs |-> MergeKeywords(FUNCTIONS[block.name].keywords, block.kw)]

(***************************************************************************)
(* Validation                                                               *)
(***************************************************************************)
\* _id = kwargs.get('id', None);  _id is None
IdIsNone(kw) == "id" \notin DOMAIN kw

\* Mutant: click is only required to name an id
ClickableOk_IdOnly(kw, clk) == "id" \in DOMAIN kw

ClickableOk(kw, clk) == kw["id"] \in clk
InputableOk(kw, inp) == kw["id"] \in inp

\* Mutant: the arity check only rejects more than three parameters
ArityOk_AtMost(kw) == Cardinality(DOMAIN kw) <= 3

ArityOk(kw) == Cardinality(DOMAIN kw) = 3

\* Mutant: the parameter count of type is checked before its id
Validate_ArityFirst(f, kw, inp, clk) ==
    CASE f = None                                  -> "NoFunctionCalled"
      [] f \in {"click", "type"} /\ IdIsNone(kw)   -> "MissingId"
      [] f = "click" /\ ~ClickableOk(kw, clk)      -> "NotClickable"
      [] f = "type" /\ ~ArityOk(kw)                -> "ArityMismatch"
      [] f = "type" /\ ~InputableOk(kw, inp)       -> "NotInputable"
      [] OTHER                                     -> "ok"

\* The five checks in source order; "ok" when none raises.
Validate(f, kw, inp, clk) ==
    CASE f = None                                  -> "NoFunctionCalled"
      [] f \in {"click", "type"} /\ IdIsNone(kw)   -> "MissingId"
      [] f = "click" /\ ~ClickableOk(kw, clk)      -> "NotClickable"
      [] f = "type" /\ ~InputableOk(kw, inp)       -> "NotInputable"
      [] f = "type" /\ ~ArityOk(kw)                -> "ArityMismatch"
      [] OTHER                                     -> "ok"

(***************************************************************************)
(* One resolution attempt: the body of the retry loop                       *)
(***************************************************************************)
\* Mutant: the first code block is taken
LastBlock_First(code) == code[1]

\* code[-1]
LastBlock(code) == code[Len(code)]

\* Python class of the exception each validation failure raises
ErrClass(err) ==
    CASE err = "NoCodeBlock"      -> "Exception"
      [] err = "NoFunctionCalled" -> "Exception"
      [] err = "MissingId"        -> "ValueError"
      [] err = "NotClickable"     -> "IndexError"
      [] err = "NotInputable"     -> "IndexError"
      [] err = "ArityMismatch"    -> "ValueError"
      [] OTHER                    -> err

\* The subclasses of Exception among the classes raised here
ExceptionClasses ==
    {"Exception", "SyntaxError", "NameError", "TypeError", "ValueError", "IndexError"}

\* Mutant: the handler names only the classes validation raises explicitly
HandlerCatches_Narrow(cls) == cls \in {"ValueError", "IndexError"}

\* except Exception as e:   (choose_action)
HandlerCatches(cls) == cls \in ExceptionClasses

\* Mutant: main's handler is a bare except
MainCatches_Bare(cls) == cls \in ExceptionClasses \cup {"KeyboardInterrupt"}

\* except Exception as e:   (main)
MainCatches(cls) == cls \in ExceptionClasses

\* The top level catches KeyboardInterrupt and exits; anything else is an
\* uncaught exception.
TopLevel(cls) == IF cls = "KeyboardInterrupt" THEN "interrupted" ELSE "crashed"

\* The try body: findall, eval and unpack, validate.  func and kwargs are
\* assigned only when the unpacking succeeded.
Try(resp, f0, kw0, inp, clk) ==
    IF Len(resp) = 0
    THEN [err |-> "NoCodeBlock", func |-> f0, kwargs |-> kw0]
    ELSE LET ev == Eval(LastBlock(resp))
         IN  IF ev.raised # ""
             THEN [err |-> ev.raised, func |-> f0, kwargs |-> kw0]
             ELSE [err    |-> Validate(ev.func, ev.kwargs, inp, clk),
                   func   |-> ev.func,
                   kwargs |-> ev.kwargs]

\* Mutant: the loop allows one more pass
LoopCond_OffByOne(r) == r <= MAX_RETRIES

\* while retries < MAX_RETRIES
LoopCond(r) == r < MAX_RETRIES

\* Mutant: the check after the loop fires one failure early
Exceeded_Early(r) == r >= MAX_RETRIES - 1

\* if retries >= MAX_RETRIES: raise Exception('Max retries exceeded!')
Exceeded(r) == r >= MAX_RETRIES

\* Mutant: a failure is counted twice
NextRetries_Twice(r) == r + 2

\* retries += 1
NextRetries(r) == r + 1

\* Mutant: the corrective message is put in front of the assistant message
\* that caused it
Feedback_BeforeAssistant(msgs, err) ==
    Append(Append(SubSeq(msgs, 1, Len(msgs) - 1), CorrectiveMessage(err)), Last(msgs))

\* The feedback appended by the except clause
Feedback(msgs, err) == AppendMessage(msgs, CorrectiveMessage(err))

\* Lines 194-198 of main: building the description of the action reads
\* args['submit'], args['text'], args['id'] for type and args['direction'] for
\* scroll; a missing key is a KeyError outside any try.
DescribeFails(f, kw) ==
    \/ f = "type"   /\ ~({"submit", "text", "id"} \subseteq DOMAIN kw)
    \/ f = "scroll" /\ "direction" \notin DOMAIN kw

\* Where main is after choose_action returned (f, kw)
AfterReturn(f, kw) == IF DescribeFails(f, kw) THEN "crashed" ELSE "confirm"

\* What follows the try body when it ended with t (t.err = "ok": it reached
\* break), on the transcript msgs1 that already holds the assistant message.
Handle(t, msgs1, r) ==
    LET r1    == NextRetries(r)
        base  == [messages |-> msgs1, retries |-> r, func |-> t.func,
                  kwargs |-> t.kwargs, lastErr |-> t.err,
                  outcome |-> "none", pc |-> "await"]
    IN  IF t.err = "ok"
        THEN \* break, then the check after the loop
             IF Exceeded(r)
             THEN [base EXCEPT !.outcome = "exhausted", !.pc = "crawl"]
             ELSE [base EXCEPT !.outcome = "returned", !.pc = AfterReturn(t.func, t.kwargs)]
        ELSE IF HandlerCatches(ErrClass(t.err))
        THEN LET fed == [base EXCEPT !.messages = Feedback(msgs1, t.err), !.retries = r1]
             IN  IF LoopCond(r1)
                 THEN fed
                 ELSE IF Exceeded(r1)
                      THEN [fed EXCEPT !.outcome = "exhausted", !.pc = "crawl"]
                      ELSE [fed EXCEPT !.outcome = "returned",
                                       !.pc = AfterReturn(t.func, t.kwargs)]
        ELSE \* the exception leaves choose_action and reaches main's handler
             IF t.err = "KeyboardInterrupt"
             THEN [base EXCEPT !.lastErr = "none",
                               !.pc = IF MainCatches(ErrClass(t.err))
                                      THEN "crawl" ELSE TopLevel(ErrClass(t.err))]
             ELSE [base EXCEPT !.outcome = "escaped",
                               !.pc = IF MainCatches(ErrClass(t.err))
                                      THEN "crawl" ELSE TopLevel(ErrClass(t.err))]

\* The effect of one pass of the loop body on a response, followed by the
\* code after the loop when the loop ends.
AttemptResult(resp, msgs, r, f0, kw0, inp, clk) ==
    Handle(Try(resp, f0, kw0, inp, clk), AppendMessage(msgs, AssistantMessage(resp)), r)

(***************************************************************************)
(* Initial state: main after bot.go_to_page(start_url), messages = []       *)
(***************************************************************************)
Unbound == "unbound"

Init ==
    /\ pc = "crawl"
    /\ objective = "obj1"
    /\ messages = <<>>
    /\ inputs = {}
    /\ clickables = {}
    /\ retries = 0
    /\ func = Unbound
    /\ kwargs = EmptyKw
    /\ calls = 0
    /\ outcome = "none"
    /\ lastErr = "none"
    /\ issued = <<>>
    /\ steps = 0
    /\ interrupted = FALSE
    /\ entryLen = 0

(***************************************************************************)
(* Actions                                                                  *)
(***************************************************************************)
\* Room in a transcript explored up to limit messages for n more messages
Within(limit, msgs, n) == Len(msgs) + n <= limit

\* Room in the explored transcript for n more messages
Fits(msgs, n) == Within(MaxMsgs, msgs, n)

\* Mutant: the counter is kept from the previous call
FreshRetries_Carried(r) == r

\* retries = 0 at the start of every call
FreshRetries(r) == 0

\* inputs, clickables = bot.crawl()  returns
CrawlOk(p) ==
    /\ pc = "crawl"
    /\ steps < MaxSteps
    /\ steps' = steps + 1
    /\ inputs' = p.inputs
    /\ clickables' = p.clickables
    /\ issued' = <<>>
    /\ outcome' = "none"
    /\ lastErr' = "none"
    /\ pc' = "choose"
    /\ UNCHANGED <<objective, messages, retries, func, kwargs, calls,
                   interrupted, entryLen>>

\* bot.crawl() raises: main prints, sleeps and continues
CrawlFail ==
    /\ pc = "crawl"
    /\ issued' = <<>>
    /\ outcome' = "crawl_error"
    /\ lastErr' = "none"
    /\ pc' = "crawl"
    /\ UNCHANGED <<objective, messages, inputs, clickables, retries,
                   func, kwargs, calls, steps, interrupted, entryLen>>

\* choose_action up to the first model-service call, on a transcript explored
\* up to limit messages
EnterWithin(limit) ==
    /\ pc = "choose"
    /\ Within(limit, messages, IF NeedsSystemMessage(messages) THEN 2 ELSE 1)
    /\ LET msgs0 == IF NeedsSystemMessage(messages)
                    THEN AppendMessage(messages, SystemMessage(objective))
                    ELSE messages
       IN  messages' = AppendMessage(msgs0, UserMessage(inputs, clickables))
    /\ retries' = FreshRetries(retries)
    /\ kwargs' = EmptyKw
    /\ func' = Unbound
    /\ calls' = 0
    /\ lastErr' = "none"
    /\ entryLen' = Len(messages)
    /\ pc' = "await"
    /\ UNCHANGED <<objective, inputs, clickables, outcome, issued, steps, interrupted>>

Enter == EnterWithin(MaxMsgs)

\* One model-service call and the handling of its response, on a transcript
\* explored up to limit messages
AttemptWithin(limit, resp) ==
    /\ pc = "await"
    /\ Within(limit, messages, 2)
    /\ LET n == AttemptResult(resp, messages, retries, func, kwargs, inputs, clickables)
       IN  /\ messages' = n.messages
           /\ retries' = n.retries
           /\ func' = n.func
           /\ kwargs' = n.kwargs
           /\ lastErr' = n.lastErr
           /\ outcome' = n.outcome
           /\ pc' = n.pc
    /\ calls' = calls + 1
    /\ UNCHANGED <<objective, inputs, clickables, issued, steps, interrupted, entryLen>>

Attempt(resp) == AttemptWithin(MaxMsgs, resp)

\* The crawler call main makes for a confirmed action (none for other names)
Executed(f, kw) ==
    IF f \in {"type", "click", "scroll", "go_back"}
    THEN <<[op |-> f, args |-> kw, by |-> "model"]>>
    ELSE <<>>

\* What main reads at "Run command? (Y/n):", lower-cased.  With force_run the
\* command is always "y": the runs of a forced session are the runs below in
\* which the operator answers "y" every time.
ConfirmInputs == {"y", "", "n"}

\* Mutant: the continue is missing and main falls through to the override menu
AfterExecute_FallThrough == "override"

\* continue, after a confirmed action was run
AfterExecute == "crawl"

Confirm(command) ==
    /\ pc = "confirm"
    /\ command \in ConfirmInputs
    /\ IF command = "y" \/ command = ""
       THEN IF func = "set_objective_complete"
            THEN pc' = "done" /\ issued' = issued
            ELSE pc' = AfterExecute /\ issued' = issued \o Executed(func, kwargs)
       ELSE pc' = "override" /\ issued' = issued
    /\ UNCHANGED <<objective, messages, inputs, clickables, retries,
                   func, kwargs, calls, outcome, lastErr, steps,
                   interrupted, entryLen>>

Manual(op, kw) == <<[op |-> op, args |-> kw, by |-> "operator"]>>

\* Mutant: changing the objective rewrites the system message
TranscriptAfterOverride_Rewritten(msgs, command, obj) ==
    IF command = "o" /\ Len(msgs) > 0 /\ msgs[1].role = "system"
    THEN [msgs EXCEPT ![1] = SystemMessage(obj)]
    ELSE msgs

\* No branch of the override menu touches messages
TranscriptAfterOverride(msgs, command, obj) == msgs

\* The override menu
Override(command, id, obj) ==
    /\ pc = "override"
    /\ command \in Commands
    /\ pc' = IF \/ command = "c" /\ id \notin clickables
                \/ command = "t" /\ id \notin inputs
             THEN "crashed" ELSE "crawl"
    /\ issued' =
         CASE command = "g" -> issued \o Manual("go_to_page", EmptyKw)
           [] command = "b" -> issued \o Manual("go_back", EmptyKw)
           [] command = "u" -> issued \o Manual("scroll", [direction |-> "up"])
           [] command = "d" -> issued \o Manual("scroll", [direction |-> "down"])
           [] command = "c" /\ id \in clickables -> issued \o Manual("click", [id |-> id])
           [] command = "t" /\ id \in inputs ->
                 issued \o Manual("type", [id |-> id, text |-> "typed", submit |-> TRUE])
           [] OTHER -> issued
    /\ objective' = IF command = "o" THEN obj ELSE objective
    /\ messages' = TranscriptAfterOverride(messages, command, obj)
    /\ UNCHANGED <<inputs, clickables, retries,
                   func, kwargs, calls, outcome, lastErr, steps,
                   interrupted, entryLen>>

Terminal == {"done", "crashed", "interrupted"}

\* Positions of main inside its try block: bot.crawl() and choose_action
InMainTry(p) == p \in {"crawl", "choose", "await"}

\* KeyboardInterrupt while main waits (for the crawler, the model service or
\* the operator), outside the try of choose_action: it passes main's handler
\* when raised inside main's try, and ends at the top level.
Interrupt ==
    /\ pc \notin Terminal
    /\ interrupted' = TRUE
    /\ pc' = IF InMainTry(pc) /\ MainCatches("KeyboardInterrupt")
             THEN "crawl" ELSE TopLevel("KeyboardInterrupt")
    /\ UNCHANGED <<objective, messages, inputs, clickables, retries,
                   func, kwargs, calls, outcome, lastErr, issued, steps, entryLen>>

\* KeyboardInterrupt inside the try of choose_action: the response has been
\* received and appended, and the interrupt is raised while it is parsed.
InterruptInTry(resp) ==
    /\ pc = "await"
    /\ Fits(messages, 2)
    /\ LET t == [err |-> "KeyboardInterrupt", func |-> func, kwargs |-> kwargs]
           n == Handle(t, AppendMessage(messages, AssistantMessage(resp)), retries)
       IN  /\ messages' = n.messages
           /\ retries' = n.retries
           /\ func' = n.func
           /\ kwargs' = n.kwargs
           /\ lastErr' = n.lastErr
           /\ outcome' = n.outcome
           /\ pc' = n.pc
    /\ calls' = calls + 1
    /\ interrupted' = TRUE
    /\ UNCHANGED <<objective, inputs, clickables, issued, steps, entryLen>>

Next ==
    \/ \E p \in PageIndexes : CrawlOk(p)
    \/ CrawlFail
    \/ Enter
    \/ \E resp \in Responses : Attempt(resp)
    \/ \E command \in ConfirmInputs : Confirm(command)
    \/ \E command \in Commands, id \in OverrideIds, obj \in Objectives :
          Override(command, id, obj)
    \/ Interrupt
    \/ \E resp \in Responses : InterruptInTry(resp)

Spec == Init /\ [][Next]_vars

(***************************************************************************)
(* The session from the end of its first step: on the first page index the  *)
(* model answered without a code block, was corrected, answered click(id=1) *)
(* and the operator confirmed it.  The transcript is explored further than  *)
(* in Spec, over fewer responses.                                           *)
(***************************************************************************)
MaxMsgsLater == 12

FirstStepTranscript ==
    << SystemMessage("obj1"),
       UserMessage({2}, {1}),
       AssistantMessage(<<>>),
       CorrectiveMessage("NoCodeBlock"),
       AssistantMessage(<<Call("click", [id |-> 1])>>) >>

\* main is back at bot.crawl() after the first step
AfterFirstStep ==
    /\ pc = "crawl"
    /\ objective = "obj1"
    /\ messages = FirstStepTranscript
    /\ inputs = {2}
    /\ clickables = {1}
    /\ retries = 1
    /\ func = "click"
    /\ kwargs = [id |-> 1]
    /\ calls = 2
    /\ outcome = "returned"
    /\ lastErr = "ok"
    /\ issued = Executed("click", [id |-> 1])
    /\ steps = 1
    /\ interrupted = FALSE
    /\ entryLen = 0

InitLater == AfterFirstStep

LaterResponses ==
    { <<>>,
      <<Call("click", [id |-> 1])>>,
      <<Call("click", [id |-> 8])>>,
      <<Call("type", [id |-> 2, text |-> "hello", submit |-> TRUE])>> }

NextLater ==
    \/ \E p \in PageIndexes : CrawlOk(p)
    \/ CrawlFail
    \/ EnterWithin(MaxMsgsLater)
    \/ \E resp \in LaterResponses : AttemptWithin(MaxMsgsLater, resp)
    \/ \E command \in ConfirmInputs : Confirm(command)
    \/ \E command \in Commands, id \in OverrideIds, obj \in Objectives :
          Override(command, id, obj)
    \/ Interrupt
    \/ \E resp \in LaterResponses : InterruptInTry(resp)

SpecLater == InitLater /\ [][NextLater]_vars

(***************************************************************************)
(* The prompt builder alone: choose_action is entered for the first time    *)
(* on any page index over RenderIds.                                        *)
(***************************************************************************)
\* Identifiers with distinct hash slots; a set of at most four keeps the
\* eight-slot table.
RenderIds == {1, 2, 3, 8}

InitRender ==
    /\ pc = "choose"
    /\ objective = "obj1"
    /\ messages = <<>>
    /\ inputs \in SUBSET RenderIds
    /\ clickables \in SUBSET RenderIds
    /\ retries = 0
    /\ func = Unbound
    /\ kwargs = EmptyKw
    /\ calls = 0
    /\ outcome = "none"
    /\ lastErr = "none"
    /\ issued = <<>>
    /\ steps = 1
    /\ interrupted = FALSE
    /\ entryLen = 0

NextRender == Enter

SpecRender == InitRender /\ [][NextRender]_vars

(***************************************************************************)
(* Properties                                                               *)
(***************************************************************************)
IsPrefix(a, b) == Len(a) <= Len(b) /\ \A i \in 1..Len(a) : a[i] = b[i]

\* The returned pair (f, kw) is grammar operation g as the partial of g builds
\* it: g's function name with g's fixed keywords.
Denotes(f, kw, g) ==
    /\ f = FUNCTIONS[g].name
    /\ \A k \in DOMAIN FUNCTIONS[g].keywords :
          k \in DOMAIN kw /\ kw[k] = FUNCTIONS[g].keywords[k]

\* C1: every call to choose_action that completes either returns one of the
\* six grammar operations, with click's id in the clickable set and type's id
\* in the inputable set with three parameters, or raises the terminal
\* 'Max retries exceeded' failure; no other operation is ever returned.
C1_ClosedGrammar ==
    /\ outcome # "escaped"
    /\ outcome = "returned" =>
          \E g \in DOMAIN FUNCTIONS :
             /\ Denotes(func, kwargs, g)
             /\ g = "click" => "id" \in DOMAIN kwargs /\ kwargs["id"] \in clickables
             /\ g = "type"  => /\ "id" \in DOMAIN kwargs
                               /\ kwargs["id"] \in inputs
                               /\ Cardinality(DOMAIN kwargs) = 3

\* What validation can answer for a candidate call that eval produced
ValidationAnswers ==
    {"ok", "NoFunctionCalled", "MissingId", "NotClickable", "NotInputable", "ArityMismatch"}

\* C2: a click call of an attempt is accepted if and only if its id is a key
\* of the clickable set, and a type call is accepted if and only if its id is
\* a key of the inputable set and exactly three parameters are supplied.
C2_AcceptIff ==
    lastErr \in ValidationAnswers =>
       /\ func = "click" =>
             (lastErr = "ok" <=> ("id" \in DOMAIN kwargs /\ kwargs["id"] \in clickables))
       /\ func = "type" =>
             (lastErr = "ok" <=> /\ "id" \in DOMAIN kwargs
                                 /\ kwargs["id"] \in inputs
                                 /\ Cardinality(DOMAIN kwargs) = 3)
       /\ lastErr = "ok" <=> outcome = "returned"

\* C2 witness: a click whose id is not clickable was just rejected on a page
\* index whose clickable set is not empty.
C2_Witness ==
    /\ func = "click" /\ lastErr = "NotClickable" /\ clickables # {}
    /\ pc = "await"

\* C3: a call that ends in exhaustion has made exactly MAX_RETRIES
\* model-service calls, all failed, and the model service is not invoked by
\* a call whose retry counter has reached MAX_RETRIES.
C3_ExhaustAfterMax ==
    /\ outcome = "exhausted" => calls = MAX_RETRIES /\ retries = MAX_RETRIES
    /\ pc = "await" => retries < MAX_RETRIES /\ calls = retries
    /\ retries >= MAX_RETRIES => pc \in {"crawl", "choose", "interrupted"}

\* C3 witness: the third consecutive failure has exhausted the call.
C3_Witness ==
    /\ outcome = "exhausted" /\ calls = MAX_RETRIES /\ pc = "crawl"
    /\ Len(messages) = 2 + 2 * MAX_RETRIES

\* A step of Attempt whose response failed to parse or validate
FailedAttempt == pc = "await" /\ calls' = calls + 1 /\ lastErr' \notin {"ok", "none"}

\* What every failed attempt does to the transcript and the counter
FailureBookkeeping ==
    /\ Len(messages') = Len(messages) + 2
    /\ messages'[Len(messages) + 1].role = "assistant"
    /\ messages'[Len(messages) + 2] = CorrectiveMessage(lastErr')
    /\ SubSeq(messages', 1, Len(messages)) = messages
    /\ retries' = retries + 1
    /\ retries' <= MAX_RETRIES

\* C4 as stated: a failed attempt appends one corrective user message,
\* increases the retry counter by one without exceeding MAX_RETRIES, and the
\* model service is invoked once more.
C4_AlwaysReinvoked ==
    [][FailedAttempt => FailureBookkeeping /\ pc' = "await"]_vars

\* C4 amended: a failed attempt appends one corrective user message and
\* increases the retry counter by one without exceeding MAX_RETRIES; when the
\* counter is then below MAX_RETRIES the call waits for exactly one more
\* model response, and when it has reached MAX_RETRIES the call is exhausted
\* without another model-service call.
C4_ReinvokedUnlessExhausted ==
    [][FailedAttempt =>
          /\ FailureBookkeeping
          /\ retries' < MAX_RETRIES => pc' = "await" /\ outcome' = "none"
          /\ retries' = MAX_RETRIES => pc' = "crawl" /\ outcome' = "exhausted"]_vars

\* C4 witness: click(id=8) was rejected on a page index where 8 is not
\* clickable, one corrective message was appended and the call awaits the
\* model again.
C4_Witness ==
    /\ lastErr = "NotClickable" /\ 8 \notin clickables
    /\ retries = 1 /\ calls = 1 /\ pc = "await"
    /\ Last(messages) = CorrectiveMessage("NotClickable")

\* C5: once a resolution has ended in retry exhaustion the session is over:
\* no further crawl, model-service call or crawler action follows.
C5_ExhaustionAborts ==
    [][outcome = "exhausted" =>
          /\ steps' = steps /\ outcome' = "exhausted"
          /\ calls' = calls /\ messages' = messages
          /\ issued' = issued]_vars

\* C6: a returned type action carries exactly the keys id, text and submit.
C6_TypeKeys ==
    (outcome = "returned" /\ func = "type") =>
        DOMAIN kwargs = {"id", "text", "submit"}

C8_AppendOnly == [][IsPrefix(messages, messages')]_vars

\* C8 witness: a second step is being resolved after an operator override
\* changed the objective, with a retry already fed back in this step.
C8_Witness ==
    /\ steps = 2 /\ objective = "obj2" /\ pc = "await" /\ retries = 1
    /\ Len(messages) >= 6

SystemPositions(msgs) == {i \in 1..Len(msgs) : msgs[i].role = "system"}

\* C9: the transcript holds at most one system message, and a non-empty
\* transcript starts with it: choose_action appends the system message
\* exactly when the transcript is empty on entry.
C9_OneSystemMessage ==
    /\ messages # <<>> => SystemPositions(messages) = {1}
    /\ messages = <<>> => pc \in {"crawl", "choose", "interrupted"}

\* C9 witness: choose_action was entered a second time, on a non-empty
\* transcript.
C9_Witness ==
    /\ steps = 2 /\ pc = "await" /\ calls = 0
    /\ Len(messages) >= 4 /\ messages[1] = SystemMessage("obj1")

\* C10: at most one crawler action is issued between two crawl() calls, and
\* only after the step's resolution returned and the operator was asked.
C10_OneActionPerStep ==
    /\ Len(issued) <= 1
    /\ issued # <<>> => outcome = "returned" /\ pc \in {"crawl", "interrupted"}
    /\ pc \in {"choose", "await", "confirm", "override"} => issued = <<>>

\* C10 witness: the confirmed click of this step was issued and main is back
\* at the top of the loop.
C10_Witness ==
    /\ Len(issued) = 1 /\ issued[1].op = "click" /\ issued[1].by = "model"
    /\ pc = "crawl"

\* C11: an operator interrupt ends the process wherever it arrives: neither
\* the retry loop's nor main's handler catches it, and after it there is no
\* further model-service call, retry, crawl or crawler action.
C11_InterruptTerminates ==
    /\ [](interrupted => pc = "interrupted")
    /\ [][pc # "interrupted"]_vars

\* C11 witness: the interrupt arrived inside the retry loop, after a failed
\* attempt, while the next response was awaited or parsed.
C11_Witness ==
    /\ interrupted /\ pc = "interrupted"
    /\ retries = 1 /\ calls >= 1 /\ outcome = "none"

\* A step in which a response was received and handled without an interrupt
AttemptStep == pc = "await" /\ calls' = calls + 1 /\ ~interrupted'

\* The response handled by the step
StepResponse == messages'[Len(messages) + 1].response

\* C12: the outcome of an attempt (the accepted action, or the kind of
\* failure) is that of the response's last code block taken alone, whatever
\* the earlier blocks are.
C12_LastBlockDecides ==
    [][(AttemptStep /\ Len(StepResponse) > 0) =>
          LET alone == Try(<<StepResponse[Len(StepResponse)]>>,
                           func, kwargs, inputs, clickables)
          IN  /\ lastErr' = alone.err
              /\ func' = alone.func
              /\ kwargs' = alone.kwargs]_vars

\* C12 witness: a response with the valid click(id=1) followed by
\* click(id=8), 8 not clickable, was rejected as not clickable.
C12_Witness ==
    /\ lastErr = "NotClickable" /\ 1 \in clickables /\ 8 \notin clickables
    /\ Len(messages) >= 2
    /\ messages[Len(messages) - 1].response =
          <<Call("click", [id |-> 1]), Call("click", [id |-> 8])>>

\* The page description of the step user message that choose_action has just
\* appended
Rendered == Last(messages).html

JustEntered == pc = "await" /\ calls = 0

\* C13: the rendered page description has exactly one node entry per
\* identifier of the union of the clickable and inputable sets, and each
\* entry's flags are the identifier's membership in the two sets.
C13_OneNodePerId ==
    JustEntered =>
       /\ \A i \in inputs \cup clickables :
             Cardinality({k \in 1..Len(Rendered) : Rendered[k].id = i}) = 1
       /\ \A k \in 1..Len(Rendered) :
             /\ Rendered[k].id \in inputs \cup clickables
             /\ Rendered[k].clickable = (Rendered[k].id \in clickables)
             /\ Rendered[k].inputable = (Rendered[k].id \in inputs)

\* C13 witness: a page index with an identifier in both sets, one only
\* clickable and one only inputable has been rendered.
C13_Witness ==
    /\ JustEntered
    /\ inputs \cap clickables # {} /\ inputs \ clickables # {} /\ clickables \ inputs # {}
    /\ Len(Rendered) = 3

\* C14 as stated: the node entries are in ascending order of identifier.
C14_Ascending ==
    JustEntered =>
       \A k \in 1..(Len(Rendered) - 1) : Rendered[k].id < Rendered[k + 1].id

\* C14 amended: the node entries are in the iteration order of the set
\* union, which for fewer than five identifiers with distinct residues
\* modulo 8 is ascending order of the residue: ascending order of identifier
\* when all identifiers are below 8, and not otherwise.
C14_SetOrder ==
    JustEntered =>
       /\ \A k \in 1..(Len(Rendered) - 1) :
             (Rendered[k].id % 8) < (Rendered[k + 1].id % 8)
       /\ (\A i \in inputs \cup clickables : i < 8) =>
             \A k \in 1..(Len(Rendered) - 1) : Rendered[k].id < Rendered[k + 1].id

\* C14 witness: identifiers 1 and 8 are rendered, 8 first.
C14_Witness ==
    /\ JustEntered
    /\ inputs \cup clickables = {1, 8}
    /\ Rendered[1].id = 8 /\ Rendered[2].id = 1

\* The first violated check, in the order no-function, missing-id,
\* not-clickable, not-inputable, arity, of an evaluated pair
FirstViolated(f, kw, inp, clk) ==
    IF f = None THEN "NoFunctionCalled"
    ELSE IF f \in {"click", "type"} /\ "id" \notin DOMAIN kw THEN "MissingId"
    ELSE IF f = "click" /\ kw["id"] \notin clk THEN "NotClickable"
    ELSE IF f = "type" /\ kw["id"] \notin inp THEN "NotInputable"
    ELSE IF f = "type" /\ Cardinality(DOMAIN kw) # 3 THEN "ArityMismatch"
    ELSE "ok"

\* C15: an attempt whose last block evaluates to a pair reports the first
\* violated check in the order no-function, missing-id, not-clickable,
\* not-inputable, arity; a type call with no id and a wrong parameter count
\* reports a missing id, and a type call with a non-inputable id and a wrong
\* parameter count reports not inputable.
C15_FirstViolatedReported ==
    [][(AttemptStep /\ Len(StepResponse) > 0) =>
          LET e == Eval(StepResponse[Len(StepResponse)])
          IN  e.raised = "" =>
                /\ lastErr' = FirstViolated(e.func, e.kwargs, inputs, clickables)
                /\ (/\ e.func = "type" /\ "id" \notin DOMAIN e.kwargs
                    /\ Cardinality(DOMAIN e.kwargs) # 3) => lastErr' = "MissingId"
                /\ (/\ e.func = "type" /\ "id" \in DOMAIN e.kwargs
                    /\ e.kwargs["id"] \notin inputs
                    /\ Cardinality(DOMAIN e.kwargs) # 3) => lastErr' = "NotInputable"]_vars

\* C15 witness: in one call a type call with no parameters was answered with
\* the missing-id message and a two-parameter type call on a non-inputable id
\* with the not-inputable message.
C15_Witness ==
    /\ 8 \notin inputs
    /\ \E i, j \in 1..(Len(messages) - 1) :
          /\ i > entryLen /\ j > entryLen
          /\ messages[i].response = <<Call("type", EmptyKw)>>
          /\ messages[i + 1].error = "MissingId"
          /\ messages[j].response = <<Call("type", [id |-> 8, text |-> "hello"])>>
          /\ messages[j + 1].error = "NotInputable"

\* What the parse and validation of a response answer on the current page
ErrOf(resp) == Try(resp, Unbound, EmptyKw, inputs, clickables).err

\* Position of the step user message of the current call
StepPos == entryLen + (IF entryLen = 0 THEN 2 ELSE 1)

\* The messages a returned call appended: optional system message, step user
\* message, retries pairs (assistant, corrective), final assistant message
ReturnedShape ==
    /\ retries < MAX_RETRIES
    /\ Len(messages) = StepPos + 2 * retries + 1
    /\ entryLen = 0 => messages[1] = SystemMessage(messages[1].objective)
    /\ messages[StepPos] = UserMessage(inputs, clickables)
    /\ \A i \in 1..retries :
          LET a == messages[StepPos + 2 * i - 1]
              c == messages[StepPos + 2 * i]
          IN  /\ a = AssistantMessage(a.response)
              /\ ErrOf(a.response) # "ok"
              /\ c = CorrectiveMessage(ErrOf(a.response))
    /\ Last(messages) = AssistantMessage(Last(messages).response)
    /\ ErrOf(Last(messages).response) = "ok"

\* A model-service call is made on a transcript ending in a user message, its
\* response is appended as the next message, and a failure puts its
\* corrective message right after it
CallStep ==
    (pc = "await" /\ calls' = calls + 1) =>
       /\ Last(messages).role = "user"
       /\ messages'[Len(messages) + 1] = AssistantMessage(StepResponse)
       /\ SubSeq(messages', 1, Len(messages)) = messages
       /\ IF lastErr' \in {"ok", "none"}
          THEN Len(messages') = Len(messages) + 1
          ELSE /\ Len(messages') = Len(messages) + 2
               /\ Last(messages') = CorrectiveMessage(ErrOf(StepResponse))

\* C16: a call that returns after k failed attempts has appended, in order,
\* an optional system message, one step user message, k pairs (assistant,
\* corrective user message) and one final assistant message; every
\* model-service call is made on a transcript ending in a user message, and
\* each corrective message immediately follows the assistant message that
\* caused it.
C16_MessageSequence ==
    /\ [](outcome = "returned" => ReturnedShape)
    /\ [](pc = "await" => Last(messages).role = "user")
    /\ [][CallStep]_vars

\* C16 witness: a first call returned after two failed attempts, having
\* appended system, user, two pairs and the final assistant message.
C16_Witness ==
    /\ outcome = "returned" /\ retries = 2 /\ entryLen = 0
    /\ Len(messages) = 7
    /\ messages[4].error # "" /\ messages[6].error # ""

\* choose_action is entered
EnterStep == pc = "choose" /\ pc' = "await"

\* bot.crawl() failed and main is back at bot.crawl()
CrawlFailStep == pc = "crawl" /\ pc' = "crawl"

\* C17: every call to choose_action starts with a retry counter of zero and no
\* model-service call made, whatever failed in earlier steps, and may call
\* the model whenever its own counter is below MAX_RETRIES; a failed crawl
\* changes neither the counter nor the number of model-service calls nor the
\* transcript.
C17_CounterPerResolution ==
    /\ [][/\ EnterStep => retries' = 0 /\ calls' = 0
          /\ CrawlFailStep => UNCHANGED <<retries, calls, messages>>]_vars
    /\ [](pc = "await" => calls = retries /\ retries < MAX_RETRIES)
    /\ [](calls <= MAX_RETRIES /\ retries <= MAX_RETRIES)

\* C17 witness: after a first step with a failed attempt, the call of the
\* second step made MAX_RETRIES model-service calls of its own.
C17_Witness ==
    /\ steps = 2 /\ entryLen = Len(FirstStepTranscript)
    /\ messages[4].error # ""
    /\ calls = MAX_RETRIES /\ outcome = "exhausted"
    /\ Len(messages) = entryLen + 1 + 2 * MAX_RETRIES

\* main runs the action choose_action returned
ExecuteStep == pc = "confirm" /\ issued' # issued

\* C18: a model-chosen click or type issued to the crawler has an id that is a
\* key of the clickable (respectively inputable) set of the most recent
\* crawl(); the action is run in the step whose page index validated it,
\* with no crawl and no other crawler action between validation and
\* execution.
C18_SamePageIndex ==
    /\ [](\A i \in 1..Len(issued) :
             issued[i].by = "model" =>
                /\ issued[i].op = "click" =>
                      "id" \in DOMAIN issued[i].args /\ issued[i].args["id"] \in clickables
                /\ issued[i].op = "type" =>
                      "id" \in DOMAIN issued[i].args /\ issued[i].args["id"] \in inputs)
    /\ [](pc = "confirm" =>
             /\ outcome = "returned" /\ issued = <<>>
             /\ FirstViolated(func, kwargs, inputs, clickables) = "ok")
    /\ [][ExecuteStep =>
             /\ issued = <<>>
             /\ issued' = Executed(func, kwargs)
             /\ UNCHANGED <<inputs, clickables, func, kwargs, steps>>]_vars

\* C18 witness: click(id=8), rejected on the first page index, was run in the
\* second step on a page index whose clickable set contains 8.
C18_Witness ==
    /\ issued = Executed("click", [id |-> 8])
    /\ 8 \in clickables /\ steps = 2
    /\ \E i \in 1..(Len(messages) - 1) :
          /\ messages[i].response = <<Call("click", [id |-> 8])>>
          /\ messages[i + 1].error = "NotClickable"

\* The response of the i-th model-service call of the current call
CallResponse(i) == messages[StepPos + 2 * i - 1].response

\* C19: a call to choose_action makes between one and MAX_RETRIES
\* model-service calls and returns exactly when one of them passes parsing
\* and validation: an attempt that passes, the MAX_RETRIES-th included, is
\* returned and not reported as exhaustion, the returned operation and
\* parameters are those its last block evaluates to, and an exhausted call
\* has made MAX_RETRIES calls that all failed.
C19_ReturnsIffAttemptPasses ==
    /\ [](calls <= MAX_RETRIES)
    /\ [](outcome = "returned" =>
             /\ 1 <= calls /\ calls = retries + 1
             /\ \A i \in 1..retries : ErrOf(CallResponse(i)) # "ok"
             /\ LET resp == Last(messages).response
                IN  /\ Len(resp) > 0
                    /\ ErrOf(resp) = "ok"
                    /\ Eval(resp[Len(resp)]).raised = ""
                    /\ func = Eval(resp[Len(resp)]).func
                    /\ kwargs = Eval(resp[Len(resp)]).kwargs)
    /\ [](outcome = "exhausted" =>
             /\ calls = MAX_RETRIES /\ retries = MAX_RETRIES
             /\ \A i \in 1..MAX_RETRIES : ErrOf(CallResponse(i)) # "ok")
    /\ [][AttemptStep =>
             IF ErrOf(StepResponse) = "ok"
             THEN outcome' = "returned"
             ELSE outcome' = (IF calls' = MAX_RETRIES THEN "exhausted" ELSE "none")]_vars

\* C19 witness: a call returned click(id=1) on its MAX_RETRIES-th
\* model-service call, after a failed attempt that had evaluated to a type
\* call.
C19_Witness ==
    /\ outcome = "returned" /\ calls = MAX_RETRIES
    /\ func = "click" /\ kwargs = [id |-> 1]
    /\ \E i \in 1..retries :
          /\ Len(CallResponse(i)) > 0
          /\ Eval(CallResponse(i)[1]).func = "type"

\* The objective given at session start
OriginalObjective == "obj1"

\* The operator changes the objective
ObjectiveChange == objective' # objective

\* C20: changing the objective through the override menu leaves the
\* transcript unchanged, so the only system message stays the first message
\* and embeds the objective given at session start, and every later
\* model-service call is made on a transcript that starts with it.
C20_OverrideKeepsTranscript ==
    /\ [][ObjectiveChange => pc = "override" /\ messages' = messages]_vars
    /\ [](\A i \in 1..Len(messages) :
             messages[i].role = "system" => messages[i] = SystemMessage(OriginalObjective))
    /\ [](pc = "await" => messages[1] = SystemMessage(OriginalObjective))

\* C20 witness: after the operator changed the objective in the first step,
\* the model was called in the second step on a transcript whose system
\* message embeds the original objective.
C20_Witness ==
    /\ objective # OriginalObjective
    /\ steps = 2 /\ calls >= 1 /\ entryLen > 0
    /\ messages[1] = SystemMessage(OriginalObjective)
    /\ Last(messages).role = "assistant"
====
